---------------------------- MODULE Spec2Model ----------------------------
(***************************************************************************)
(* Path resolution of crates/emmylua_code_analysis/src/config/mod.rs:      *)
(* pre_process_emmyrc, pre_process_path, replace_env_var,                  *)
(* replace_placeholders and normalize_path.                                *)
(*                                                                         *)
(* A string (String, OsString, PathBuf) is a sequence of one-character     *)
(* strings, so that parsing a path into components and printing it back    *)
(* are computed, not assumed.  The library calls the code makes            *)
(* (Path::components, PathBuf::push, Path::join, Path::is_absolute,        *)
(* str::starts_with, Regex::replace_all) are operators that follow the     *)
(* documented behaviour of each on the two builds the code distinguishes   *)
(* with cfg(windows).  On the windows build only drive prefixes ("c:") are *)
(* modelled: the inputs never start with two separators (UNC, device and   *)
(* verbatim prefixes).                                                     *)
(***************************************************************************)
EXTENDS Naturals, Sequences, FiniteSets

VARIABLES
    windows,      \* the build: TRUE for cfg(windows), FALSE for cfg(not(windows))
    pc,           \* position of the running operation
    input,        \* normalize_path: the path handed in
    normalized,   \* normalize_path(input)
    renormalized, \* normalize_path(normalize_path(input))
    env,          \* the process environment: variable name -> value
    home,         \* dirs::home_dir(): a path, or None
    workspace,    \* the workspace root handed to pre_process_emmyrc
    raw,          \* pre_process_path: the raw entry handed in
    path,         \* pre_process_path: the local `path` string
    result_buf,   \* pre_process_path: the anchored candidate
    ret,          \* pre_process_path: the returned string
    loaded,       \* the Emmyrc as deserialized
    emmyrc        \* the Emmyrc that pre_process_emmyrc rewrites

vars == <<windows, pc, input, normalized, renormalized, env, home, workspace,
          raw, path, result_buf, ret, loaded, emmyrc>>

normalize_vars == <<input, normalized, renormalized>>
path_vars      == <<raw, path, result_buf, ret>>
emmyrc_vars    == <<loaded, emmyrc>>
world_vars     == <<windows, env, home, workspace>>

None == "None"

----------------------------------------------------------------------------
(* Strings *)

Letters ==
    {"a","b","c","d","e","f","g","h","i","j","k","l","m","n","o","p","q","r","s",
     "t","u","v","w","x","y","z","A","B","C","D","E","F","G","H","I","J","K","L",
     "M","N","O","P","Q","R","S","T","U","V","W","X","Y","Z"}

Digits == {"0","1","2","3","4","5","6","7","8","9"}

\* str::starts_with
starts_with(s, p) == Len(s) >= Len(p) /\ SubSeq(s, 1, Len(p)) = p

\* &s[n..]
slice_from(s, n) == SubSeq(s, n + 1, Len(s))

----------------------------------------------------------------------------
(* std::path on the two builds *)

is_sep_byte(c) == c = "/" \/ (windows /\ c = "\\")

MAIN_SEP == IF windows THEN "\\" ELSE "/"

\* length of the drive prefix of p (0: no prefix; always 0 off windows)
prefix_len(p) ==
    IF windows /\ Len(p) >= 2 /\ p[1] \in Letters /\ p[2] = ":" THEN 2 ELSE 0

path_prefix(p) == IF prefix_len(p) = 0 THEN None ELSE SubSeq(p, 1, prefix_len(p))

has_root(p) == Len(p) > prefix_len(p) /\ is_sep_byte(p[prefix_len(p) + 1])

\* Path::is_absolute: a root on unix; a prefix and a root on windows
is_absolute(p) ==
    IF windows THEN prefix_len(p) > 0 /\ has_root(p) ELSE has_root(p)

\* the pieces of s between separators, empty ones included
RECURSIVE split_components(_, _, _)
split_components(s, cur, acc) ==
    IF s = <<>> THEN Append(acc, cur)
    ELSE IF is_sep_byte(Head(s)) THEN split_components(Tail(s), <<>>, Append(acc, cur))
    ELSE split_components(Tail(s), Append(cur, Head(s)), acc)

Component(kind, text) == [kind |-> kind, text |-> text]

\* Path::components: the prefix, the root, then the pieces; empty pieces and
\* "." are dropped, except a "." that starts a path without a root
components(p) ==
    LET n      == prefix_len(p)
        rest   == slice_from(p, n)
        pieces == split_components(rest, <<>>, <<>>)
        Piece(i) ==
            LET t == pieces[i] IN
            IF t = <<>> THEN <<>>
            ELSE IF t = <<".">> THEN
                IF i = 1 /\ ~has_root(p) THEN <<Component("CurDir", t)>> ELSE <<>>
            ELSE IF t = <<".", ".">> THEN <<Component("ParentDir", t)>>
            ELSE <<Component("Normal", t)>>
        RECURSIVE Walk(_)
        Walk(i) == IF i > Len(pieces) THEN <<>> ELSE Piece(i) \o Walk(i + 1)
    IN  (IF n > 0 THEN <<Component("Prefix", SubSeq(p, 1, n))>> ELSE <<>>)
        \o (IF has_root(p) THEN <<Component("RootDir", <<MAIN_SEP>>)>> ELSE <<>>)
        \o (IF rest = <<>> THEN <<>> ELSE Walk(1))

\* PathBuf::push: an absolute path, or one with a prefix, replaces self; on
\* windows a path with a root and no prefix replaces all but self's prefix;
\* otherwise the path is appended, after a separator when self needs one
push(self, p) ==
    LET need_sep == self # <<>> /\ ~is_sep_byte(self[Len(self)])
                    /\ ~(prefix_len(self) > 0 /\ prefix_len(self) = Len(self))
    IN  IF is_absolute(p) \/ prefix_len(p) > 0 THEN p
        ELSE IF has_root(p) THEN SubSeq(self, 1, prefix_len(self)) \o p
        ELSE IF need_sep THEN self \o <<MAIN_SEP>> \o p
        ELSE self \o p

\* Path::join
join(self, p) == push(self, p)

----------------------------------------------------------------------------
(* normalize_path *)

NormState(out, prefix, root) == [out |-> out, prefix |-> prefix, has_root |-> root]

\* Component::ParentDir
parent_dir(st) ==
    IF st.out # <<>> THEN [st EXCEPT !.out = SubSeq(st.out, 1, Len(st.out) - 1)]
    ELSE IF ~st.has_root /\ st.prefix = None
         THEN [st EXCEPT !.out = Append(st.out, <<".", ".">>)]
    ELSE st

\* Component::CurDir
cur_dir(st) == st

\* one turn of the loop over path.components()
normalize_step(st, comp) ==
    CASE comp.kind = "Prefix"    -> [st EXCEPT !.prefix = comp.text]
      [] comp.kind = "RootDir"   -> [st EXCEPT !.has_root = TRUE]
      [] comp.kind = "CurDir"    -> cur_dir(st)
      [] comp.kind = "ParentDir" -> parent_dir(st)
      [] comp.kind = "Normal"    -> [st EXCEPT !.out = Append(st.out, comp.text)]

RECURSIVE normalize_loop(_, _)
normalize_loop(st, comps) ==
    IF comps = <<>> THEN st
    ELSE normalize_loop(normalize_step(st, Head(comps)), Tail(comps))

RECURSIVE push_all(_, _)
push_all(result, out) ==
    IF out = <<>> THEN result ELSE push_all(push(result, Head(out)), Tail(out))

\* the result rebuilt from the prefix, the root separator and the stack
rebuild(st) ==
    LET r0 == IF st.prefix # None THEN push(<<>>, st.prefix) ELSE <<>>
        r1 == IF st.has_root THEN push(r0, <<MAIN_SEP>>) ELSE r0
    IN  push_all(r1, st.out)

normalize_path(p) ==
    rebuild(normalize_loop(NormState(<<>>, None, FALSE), components(p)))

----------------------------------------------------------------------------
(* OsStr and String *)

\* a unit of an OsStr that is not valid UTF-8
INVALID_UNIT == "0xFF"

\* U+FFFD REPLACEMENT CHARACTER
REPLACEMENT_CHARACTER == "U+FFFD"

\* Path::to_str: the string, or None when a unit is not valid UTF-8
to_str(os) == IF \E i \in 1..Len(os) : os[i] = INVALID_UNIT THEN None ELSE os

\* Path::to_string_lossy
to_string_lossy(os) ==
    [i \in 1..Len(os) |-> IF os[i] = INVALID_UNIT THEN REPLACEMENT_CHARACTER ELSE os[i]]

----------------------------------------------------------------------------
(* replace_env_var *)

\* std::env::var: the value, or None when the variable is not set
env_var(key) == IF key \in DOMAIN env THEN env[key] ELSE None

\* \w
is_word(c) == c \in Letters \cup Digits \cup {"_"}

\* the length of the longest run of word characters that starts s: (\w+)
RECURSIVE word_run(_)
word_run(s) == IF s # <<>> /\ is_word(Head(s)) THEN 1 + word_run(Tail(s)) ELSE 0

\* the replacement closure: the variable's value, the empty string when unset
\* variant: an unset variable leaves its name in place
env_replacement_keeps_name(key) == IF env_var(key) = None THEN key ELSE env_var(key)

env_replacement(key) == IF env_var(key) = None THEN <<>> ELSE env_var(key)

\* Regex \$(\w+), replace_all: leftmost matches, the replacement not re-scanned
RECURSIVE replace_env_var(_)
replace_env_var(s) ==
    IF s = <<>> THEN <<>>
    ELSE LET n == word_run(Tail(s)) IN
         IF Head(s) = "$" /\ n > 0
         THEN env_replacement(SubSeq(s, 2, n + 1)) \o replace_env_var(slice_from(s, n + 1))
         ELSE <<Head(s)>> \o replace_env_var(Tail(s))

\* path.replace("$", "")
remove_dollar(s) == SelectSeq(s, LAMBDA c : c # "$")

----------------------------------------------------------------------------
(* replace_placeholders *)

WORKSPACE_FOLDER == <<"w","o","r","k","s","p","a","c","e","F","o","l","d","e","r">>

ENV_PREFIX == <<"e","n","v",":">>

\* the index of the first "}" of s at or after i, 0 when there is none
RECURSIVE find_close(_, _)
find_close(s, i) ==
    IF i > Len(s) THEN 0 ELSE IF s[i] = "}" THEN i ELSE find_close(s, i + 1)

\* the replacement closure: caps[1] is key, caps[0] is whole
placeholder_replacement(key, whole, workspace_folder) ==
    IF key = WORKSPACE_FOLDER THEN workspace_folder
    ELSE IF starts_with(key, ENV_PREFIX)
         THEN (LET v == env_var(slice_from(key, Len(ENV_PREFIX)))
               IN  IF v = None THEN <<>> ELSE v)
    ELSE whole

\* Regex \{([^}]+)\}, replace_all: a match starts at a "{" whose next "}" is
\* not the next character; the replacement is not re-scanned
RECURSIVE placeholders_scan(_, _)
placeholders_scan(s, workspace_folder) ==
    IF s = <<>> THEN <<>>
    ELSE LET k == find_close(s, 2) IN
         IF Head(s) = "{" /\ k > 2
         THEN placeholder_replacement(SubSeq(s, 2, k - 1), SubSeq(s, 1, k),
                                      workspace_folder)
              \o placeholders_scan(slice_from(s, k), workspace_folder)
         ELSE <<Head(s)>> \o placeholders_scan(Tail(s), workspace_folder)

\* variant: the text after placeholder substitution goes through the `$` steps again
replace_placeholders_rescanned(s, workspace_folder) ==
    remove_dollar(replace_env_var(placeholders_scan(s, workspace_folder)))

replace_placeholders(s, workspace_folder) == placeholders_scan(s, workspace_folder)

----------------------------------------------------------------------------
(* pre_process_path *)

\* path = replace_env_var(&path); path = path.replace("$", "")
expand_env(p) == remove_dollar(replace_env_var(p))

\* home_dir.join(&path[1..])
anchor_home(p) == join(home, slice_from(p, 1))

\* the if/else chain that computes result_buf; None when the home directory
\* is needed and not known
anchor(p, ws) ==
    IF starts_with(p, <<"~">>) THEN (IF home = None THEN None ELSE anchor_home(p))
    ELSE IF starts_with(p, <<".", "/">>) THEN join(ws, slice_from(p, 2))
    ELSE IF is_absolute(p) THEN p
    ELSE join(ws, p)

\* normalize_path(&result_buf).to_string_lossy().to_string()
finish(buf) == to_string_lossy(normalize_path(buf))

pre_process_path(p, ws) ==
    LET p1 == expand_env(p) IN
    IF to_str(ws) = None THEN p1
    ELSE LET p2  == replace_placeholders(p1, to_str(ws))
             buf == anchor(p2, ws)
         IN  IF buf = None THEN p2 ELSE finish(buf)

----------------------------------------------------------------------------
(* Bounds *)

MaxPieces == 4

PathPieces ==
    {<<"/">>, <<"\\">>, <<".">>, <<".", ".">>, <<"a">>, <<"c", ":">>}

RECURSIVE Concat(_)
Concat(ss) == IF ss = <<>> THEN <<>> ELSE Head(ss) \o Concat(Tail(ss))

PiecesUpTo(n) == UNION {[1..k -> PathPieces] : k \in 0..n}

\* "../../a", "/a/../../b", "a/./b/../c"
ExamplePaths ==
    {<<".", ".", "/", ".", ".", "/", "a">>,
     <<"/", "a", "/", ".", ".", "/", ".", ".", "/", "b">>,
     <<"a", "/", ".", "/", "b", "/", ".", ".", "/", "c">>}

Paths == {Concat(ss) : ss \in PiecesUpTo(MaxPieces)} \cup ExamplePaths

\* UNC, device and verbatim prefixes are not modelled
InModel(p) == ~(windows /\ Len(p) >= 2 /\ is_sep_byte(p[1]) /\ is_sep_byte(p[2]))

----------------------------------------------------------------------------
(* normalize_path applied once and again *)

InitNormalize ==
    /\ windows \in BOOLEAN
    /\ pc = "input"
    /\ input \in Paths
    /\ InModel(input)
    /\ normalized = None
    /\ renormalized = None
    /\ env = <<>> /\ home = None /\ workspace = <<>>
    /\ raw = None /\ path = None /\ result_buf = None /\ ret = None
    /\ loaded = None /\ emmyrc = None

Normalize ==
    /\ pc = "input"
    /\ normalized' = normalize_path(input)
    /\ pc' = "normalized"
    /\ UNCHANGED <<input, renormalized, world_vars, path_vars, emmyrc_vars>>

Renormalize ==
    /\ pc = "normalized"
    /\ renormalized' = normalize_path(normalized)
    /\ pc' = "renormalized"
    /\ UNCHANGED <<input, normalized, world_vars, path_vars, emmyrc_vars>>

NextNormalize == Normalize \/ Renormalize

SpecNormalize == InitNormalize /\ [][NextNormalize]_vars

----------------------------------------------------------------------------
(* The environments, home directories and workspace roots of the runs *)

FOO == <<"F", "O", "O">>
DVAR == <<"D">>
MISSING == <<"M", "I", "S", "S", "I", "N", "G">>

BAR == <<"b", "a", "r">>
DVAR_VALUE == <<"$", "F", "O", "O", "$">>

\* nothing set; FOO=bar and D='$FOO$'.  MISSING is never set.
Environments ==
    {<<>>, [k \in {FOO, DVAR} |-> IF k = FOO THEN BAR ELSE DVAR_VALUE]}

Homes == IF windows THEN {None, <<"c", ":", "\\", "h">>} ELSE {None, <<"/", "h">>}

\* a plain root, a root whose name holds a `$NAME`, a root that is not UTF-8
Workspaces ==
    IF windows
    THEN {<<"c", ":", "\\", "w">>, <<"c", ":", "\\", "$", "F", "O", "O">>,
          <<"c", ":", "\\", INVALID_UNIT>>}
    ELSE {<<"/", "w">>, <<"/", "$", "F", "O", "O">>, <<"/", INVALID_UNIT>>}

MaxEntryPieces == 3

EntryPieces ==
    {<<"$">> \o FOO, <<"$">> \o MISSING, <<"$">>,
     <<"{">> \o WORKSPACE_FOLDER \o <<"}">>, <<"{">> \o ENV_PREFIX \o DVAR \o <<"}">>,
     <<"~">>, <<".">>, <<"/">>, <<"x">>}

\* "$FOO/lib", "{workspaceFolder}/src"
ExampleEntries ==
    {<<"$", "F", "O", "O", "/", "l", "i", "b">>,
     <<"{">> \o WORKSPACE_FOLDER \o <<"}", "/", "s", "r", "c">>}

RawEntries ==
    {Concat(ss) : ss \in UNION {[1..k -> EntryPieces] : k \in 0..MaxEntryPieces}}
    \cup ExampleEntries

\* every string the if/else chain reads as a path is one the model covers
Modelled(p) == InModel(p) /\ InModel(slice_from(p, 1)) /\ InModel(slice_from(p, 2))

----------------------------------------------------------------------------
(* pre_process_path, statement by statement *)

InitPath ==
    /\ windows \in BOOLEAN
    /\ env \in Environments
    /\ home \in Homes
    /\ workspace \in Workspaces
    /\ raw \in RawEntries
    /\ pc = "start"
    /\ path = raw
    /\ result_buf = None
    /\ ret = None
    /\ input = None /\ normalized = None /\ renormalized = None
    /\ loaded = None /\ emmyrc = None

\* path = replace_env_var(&path); path = path.replace("$", "")
ExpandEnv ==
    /\ pc = "start"
    /\ path' = expand_env(path)
    /\ pc' = "env_expanded"
    /\ UNCHANGED <<raw, result_buf, ret, world_vars, normalize_vars, emmyrc_vars>>

\* workspace.to_str() is None: return path
\* variant: the raw entry is returned
ReturnNotUtf8_raw ==
    /\ pc = "env_expanded"
    /\ to_str(workspace) = None
    /\ ret' = raw
    /\ pc' = "returned"
    /\ UNCHANGED <<raw, path, result_buf, world_vars, normalize_vars, emmyrc_vars>>

ReturnNotUtf8 ==
    /\ pc = "env_expanded"
    /\ to_str(workspace) = None
    /\ ret' = path
    /\ pc' = "returned"
    /\ UNCHANGED <<raw, path, result_buf, world_vars, normalize_vars, emmyrc_vars>>

\* path = replace_placeholders(&path, workspace_str)
ReplacePlaceholders ==
    /\ pc = "env_expanded"
    /\ to_str(workspace) # None
    /\ path' = replace_placeholders(path, to_str(workspace))
    /\ pc' = "expanded"
    /\ UNCHANGED <<raw, result_buf, ret, world_vars, normalize_vars, emmyrc_vars>>

\* dirs::home_dir() is None: return path
ReturnNoHome ==
    /\ pc = "expanded"
    /\ anchor(path, workspace) = None
    /\ ret' = path
    /\ pc' = "returned"
    /\ UNCHANGED <<raw, path, result_buf, world_vars, normalize_vars, emmyrc_vars>>

\* let result_buf = if ... else ...
Anchor ==
    /\ pc = "expanded"
    /\ Modelled(path)
    /\ anchor(path, workspace) # None
    /\ result_buf' = anchor(path, workspace)
    /\ pc' = "anchored"
    /\ UNCHANGED <<raw, path, ret, world_vars, normalize_vars, emmyrc_vars>>

\* normalize_path(&result_buf).to_string_lossy().to_string()
NormalizeResult ==
    /\ pc = "anchored"
    /\ ret' = finish(result_buf)
    /\ pc' = "returned"
    /\ UNCHANGED <<raw, path, result_buf, world_vars, normalize_vars, emmyrc_vars>>

NextPath ==
    \/ ExpandEnv
    \/ ReturnNotUtf8
    \/ ReplacePlaceholders
    \/ ReturnNoHome
    \/ Anchor
    \/ NormalizeResult

SpecPath == InitPath /\ [][NextPath]_vars

\* the statements compose to the function
StepsAgree == pc = "returned" => ret = pre_process_path(raw, workspace)

----------------------------------------------------------------------------
(* pre_process_emmyrc *)

\* .filter(|path| seen.insert(path.clone())): true for a path not seen yet
\* variant: no entry is filtered out
is_new_always(p, seen) == TRUE

is_new(p, seen) == p \notin seen

RECURSIVE dedup_from(_, _, _)
dedup_from(paths, seen, acc) ==
    IF paths = <<>> THEN acc
    ELSE IF is_new(Head(paths), seen)
         THEN dedup_from(Tail(paths), seen \cup {Head(paths)}, Append(acc, Head(paths)))
    ELSE dedup_from(Tail(paths), seen, acc)

\* iter.map(|root| pre_process_path(root, workspace_root))
map_pre_process_path(list, ws) == [i \in 1..Len(list) |-> pre_process_path(list[i], ws)]

process_and_dedup(list, ws) == dedup_from(map_pre_process_path(list, ws), {}, <<>>)

\* the four lists of Emmyrc that hold paths
Emmyrc(roots, library, ignore_dir, paths) ==
    [workspace_roots |-> roots, library |-> library, ignore_dir |-> ignore_dir,
     resource_paths |-> paths]

MaxEntries == 3

\* "/a/b", "./b", "$FOO/../b", "~/d", "b/c:"
ConfigEntries ==
    {<<"/", "a", "/", "b">>, <<".", "/", "b">>,
     <<"$", "F", "O", "O", "/", ".", ".", "/", "b">>,
     <<"~", "/", "d">>, <<"b", "/", "c", ":">>}

ConfigLists == UNION {[1..k -> ConfigEntries] : k \in 0..MaxEntries}

\* every Emmyrc whose four lists hold MaxEntries entries or fewer in all
Emmyrcs ==
    {Emmyrc(SubSeq(l, 1, i), SubSeq(l, i + 1, j), SubSeq(l, j + 1, k),
            SubSeq(l, k + 1, Len(l))) :
        <<l, i, j, k>> \in {t \in ConfigLists \X (0..MaxEntries) \X (0..MaxEntries)
                                   \X (0..MaxEntries) :
                               t[2] <= t[3] /\ t[3] <= t[4] /\ t[4] <= Len(t[1])}}

EmmyrcWorkspace == IF windows THEN <<"c", ":", "\\", "a">> ELSE <<"/", "a">>

\* FOO=bar and D='$FOO$'
EmmyrcEnv == [k \in {FOO, DVAR} |-> IF k = FOO THEN BAR ELSE DVAR_VALUE]

Init ==
    /\ windows \in BOOLEAN
    /\ env = EmmyrcEnv
    /\ home \in Homes
    /\ workspace = EmmyrcWorkspace
    /\ loaded \in Emmyrcs
    /\ emmyrc = loaded
    /\ pc = "loaded"
    /\ input = None /\ normalized = None /\ renormalized = None
    /\ raw = None /\ path = None /\ result_buf = None /\ ret = None

ProcessWorkspaceRoots ==
    /\ pc = "loaded"
    /\ emmyrc' = [emmyrc EXCEPT
                    !.workspace_roots = process_and_dedup(@, workspace)]
    /\ pc' = "workspace_roots"
    /\ UNCHANGED <<loaded, world_vars, normalize_vars, path_vars>>

ProcessLibrary ==
    /\ pc = "workspace_roots"
    /\ emmyrc' = [emmyrc EXCEPT !.library = process_and_dedup(@, workspace)]
    /\ pc' = "library"
    /\ UNCHANGED <<loaded, world_vars, normalize_vars, path_vars>>

ProcessIgnoreDir ==
    /\ pc = "library"
    /\ emmyrc' = [emmyrc EXCEPT !.ignore_dir = process_and_dedup(@, workspace)]
    /\ pc' = "ignore_dir"
    /\ UNCHANGED <<loaded, world_vars, normalize_vars, path_vars>>

ProcessResourcePaths ==
    /\ pc = "ignore_dir"
    /\ emmyrc' = [emmyrc EXCEPT !.resource_paths = process_and_dedup(@, workspace)]
    /\ pc' = "done"
    /\ UNCHANGED <<loaded, world_vars, normalize_vars, path_vars>>

Next ==
    \/ ProcessWorkspaceRoots
    \/ ProcessLibrary
    \/ ProcessIgnoreDir
    \/ ProcessResourcePaths

Spec == Init /\ [][Next]_vars

----------------------------------------------------------------------------
(* What the properties speak of *)

\* the kinds of the components of p, in order
Kinds(p) == [i \in 1..Len(components(p)) |-> components(p)[i].kind]

HasComponent(p, kind) == \E i \in 1..Len(components(p)) : components(p)[i].kind = kind

\* how many ParentDir components start ks
RECURSIVE leading_parents(_)
leading_parents(ks) ==
    IF ks # <<>> /\ Head(ks) = "ParentDir" THEN 1 + leading_parents(Tail(ks)) ELSE 0

\* how many ParentDir components of ks are met at depth 0
RECURSIVE unmatched_parents(_, _)
unmatched_parents(ks, depth) ==
    IF ks = <<>> THEN 0
    ELSE IF Head(ks) = "Normal" THEN unmatched_parents(Tail(ks), depth + 1)
    ELSE IF Head(ks) = "ParentDir" /\ depth > 0 THEN unmatched_parents(Tail(ks), depth - 1)
    ELSE IF Head(ks) = "ParentDir" THEN 1 + unmatched_parents(Tail(ks), 0)
    ELSE unmatched_parents(Tail(ks), depth)

\* p is k ParentDir components and then Normal components only
AscentsThenNormals(p) ==
    \A i \in leading_parents(Kinds(p)) + 1..Len(Kinds(p)) : Kinds(p)[i] = "Normal"

\* no Normal component of p reads as a path with a drive prefix ("c:", "c:x")
NoDriveLikeName(p) ==
    \A i \in 1..Len(components(p)) :
        components(p)[i].kind = "Normal" => prefix_len(components(p)[i].text) = 0

Relative(p) == prefix_len(p) = 0 /\ ~has_root(p)

----------------------------------------------------------------------------
(* C1 *)

LeadingAscentsKept ==
    (pc = "normalized" /\ Relative(input)) =>
        /\ leading_parents(Kinds(normalized)) = unmatched_parents(Kinds(input), 0)
        /\ AscentsThenNormals(input) =>
               leading_parents(Kinds(normalized)) = leading_parents(Kinds(input))
        /\ (~windows /\ input = <<".", ".", "/", ".", ".", "/", "a">>) =>
               normalized = input

\* C1: normalize_path keeps the leading ascents of a relative path: every `..`
\* met with nothing to pop is in the output, k leading `..` followed by normal
\* components give an output that starts with k `..`, and "../../a" gives
\* "../../a".
C1_LeadingAscentsKept == LeadingAscentsKept

----------------------------------------------------------------------------
(* C2 *)

Idempotent == pc = "renormalized" => renormalized = normalized

\* C2: normalize_path is idempotent: for every path P,
\* normalize_path(normalize_path(P)) = normalize_path(P).
C2_Idempotent == Idempotent

C2_Idempotent_NotWindows == ~windows => Idempotent

C2_Idempotent_NoDriveLikeName == NoDriveLikeName(input) => Idempotent

----------------------------------------------------------------------------
(* C6 *)

NeverAboveRoot ==
    (pc = "normalized" /\ ~Relative(input)) =>
        /\ ~HasComponent(normalized, "ParentDir")
        /\ (~windows /\ input = <<"/", "a", "/", ".", ".", "/", ".", ".", "/", "b">>) =>
               normalized = <<"/", "b">>

\* C6: a `..` of a path with a root or a prefix is dropped when the stack is
\* empty, so the result holds no `..` component; "/a/../../b" gives "/b".
C6_NeverAboveRoot == NeverAboveRoot

C6_NeverAboveRoot_NotWindows == ~windows => NeverAboveRoot

C6_NeverAboveRoot_NoDriveLikeName == NoDriveLikeName(input) => NeverAboveRoot

----------------------------------------------------------------------------
(* C7 *)

\* no ParentDir component follows a Normal one
Folded(p) ==
    \A i \in 1..Len(Kinds(p)) - 1 :
        ~(Kinds(p)[i] = "Normal" /\ Kinds(p)[i + 1] = "ParentDir")

NormalForm ==
    pc = "normalized" =>
        /\ ~HasComponent(normalized, "CurDir")
        /\ Folded(normalized)
        /\ has_root(normalized) = has_root(input)
        /\ path_prefix(normalized) = path_prefix(input)
        /\ (~windows /\ input = <<"a", "/", ".", "/", "b", "/", ".", ".", "/", "c">>) =>
               normalized = <<"a", "/", "c">>

\* C7: the output of normalize_path holds no `.` component and no `..` after a
\* normal component, has a root exactly when the input has one and has the
\* prefix of the input; "a/./b/../c" gives "a/c".
C7_NormalForm == NormalForm

C7_NormalForm_NotWindows == ~windows => NormalForm

C7_NormalForm_NoDriveLikeName == NoDriveLikeName(input) => NormalForm

----------------------------------------------------------------------------
(* C3 *)

Contains(s, c) == \E i \in 1..Len(s) : s[i] = c

\* C3: an entry that begins with `~` is anchored to the home directory H: the
\* text after `~` is appended to H whatever it begins with, and "~/x" becomes
\* H followed by "/x".
C3_HomeAnchored ==
    (pc = "anchored" /\ starts_with(path, <<"~">>)) =>
        /\ starts_with(result_buf, home)
        /\ starts_with(path, <<"~", "/">>) => result_buf = home \o slice_from(path, 1)

\* what the code does with `~/rest`: the remainder replaces the home directory
\* but for its drive
C3_HomeReplaced ==
    (pc = "anchored" /\ starts_with(path, <<"~", "/">>)) =>
        result_buf = SubSeq(home, 1, prefix_len(home)) \o slice_from(path, 1)

----------------------------------------------------------------------------
(* C4 *)

\* C4 as stated: with a workspace root that is not valid UTF-8 the raw entry
\* is returned unchanged, character for character.
C4_RawReturned ==
    (pc = "returned" /\ to_str(workspace) = None) => ret = raw

\* C4: with a workspace root that is not valid UTF-8 the returned string is the
\* raw entry after `$NAME` substitution and the removal of every `$`, with no
\* placeholder substitution, anchoring or normalization; it is the raw entry
\* itself when the raw entry holds no `$`.
C4_EnvExpandedReturned ==
    (pc = "returned" /\ to_str(workspace) = None) =>
        /\ ret = remove_dollar(replace_env_var(raw))
        /\ result_buf = None
        /\ ~Contains(ret, "$")
        /\ ~Contains(raw, "$") => ret = raw

C4_Witness ==
    /\ pc = "returned"
    /\ to_str(workspace) = None
    /\ FOO \in DOMAIN env
    /\ raw = <<"$">> \o FOO \o <<"{">> \o WORKSPACE_FOLDER \o <<"}">>
    /\ ret = BAR \o <<"{">> \o WORKSPACE_FOLDER \o <<"}">>

----------------------------------------------------------------------------
(* C8 *)

WorkspaceFolderPlaceholder == <<"{">> \o WORKSPACE_FOLDER \o <<"}">>
EnvDPlaceholder == <<"{">> \o ENV_PREFIX \o DVAR \o <<"}">>

\* C8: `$NAME` substitution runs before placeholder substitution, so the text
\* put in place of {workspaceFolder} or {env:NAME} is never searched for `$`:
\* it is in the path as it is, with its `$` and `$NAME`.
C8_SubstitutedTextNotRescanned ==
    pc = "expanded" =>
        /\ starts_with(raw, WorkspaceFolderPlaceholder) =>
               starts_with(path, to_str(workspace))
        /\ (starts_with(raw, EnvDPlaceholder) /\ DVAR \in DOMAIN env) =>
               starts_with(path, DVAR_VALUE)
        /\ raw = WorkspaceFolderPlaceholder \o <<"/", "s", "r", "c">> =>
               path = to_str(workspace) \o <<"/", "s", "r", "c">>
        /\ (~Contains(raw, "{") /\ ~Contains(raw, "}")) => ~Contains(path, "$")

C8_Witness ==
    /\ pc = "expanded"
    /\ FOO \in DOMAIN env
    /\ Contains(to_str(workspace), "$")
    /\ raw = WorkspaceFolderPlaceholder \o <<"/", "s", "r", "c">>
    /\ path = to_str(workspace) \o <<"/", "s", "r", "c">>

----------------------------------------------------------------------------
(* C10 *)

\* C10: a `$NAME` whose variable is unset is replaced by the empty string:
\* "$MISSING/x" becomes "/x" and is normalized to "/x"; with FOO=bar,
\* "$FOO/lib" becomes "bar/lib".
C10_UnsetIsEmpty ==
    /\ (pc = "env_expanded" /\ starts_with(raw, <<"$">> \o MISSING)) =>
           LET rest == slice_from(raw, 1 + Len(MISSING))
           IN  /\ raw = <<"$">> \o MISSING \o <<"/", "x">> => path = <<"/", "x">>
               /\ (~Contains(rest, "$") /\ (rest = <<>> \/ ~is_word(rest[1]))) =>
                      path = rest
    /\ (pc = "env_expanded" /\ raw = <<"$">> \o FOO \o <<"/", "l", "i", "b">>) =>
           path = (IF FOO \in DOMAIN env THEN BAR ELSE <<>>) \o <<"/", "l", "i", "b">>
    /\ (pc = "returned" /\ to_str(workspace) # None
            /\ raw = <<"$">> \o MISSING \o <<"/", "x">>) =>
           ret = IF windows THEN <<"c", ":", "\\", "x">> ELSE <<"/", "x">>

C10_Witness ==
    /\ pc = "returned"
    /\ ~windows
    /\ to_str(workspace) # None
    /\ MISSING \notin DOMAIN env
    /\ raw = <<"$">> \o MISSING \o <<"/", "x">>
    /\ ret = <<"/", "x">>

----------------------------------------------------------------------------
(* C5 *)

Range(list) == {list[i] : i \in 1..Len(list)}

first_index(list, x) == CHOOSE i \in 1..Len(list) : list[i] = x /\ \A j \in 1..i - 1 : list[j] # x

\* out is the distinct strings of resolved, each once, in the order of their
\* first occurrence in resolved
FirstOccurrences(out, resolved) ==
    /\ \A i, j \in 1..Len(out) : i # j => out[i] # out[j]
    /\ Range(out) = Range(resolved)
    /\ \A i, j \in 1..Len(out) :
           i < j => first_index(resolved, out[i]) < first_index(resolved, out[j])

Resolved(list) == [i \in 1..Len(list) |-> pre_process_path(list[i], workspace)]

Processed(field) ==
    CASE field = "workspace_roots" -> pc \in {"workspace_roots", "library", "ignore_dir", "done"}
      [] field = "library" -> pc \in {"library", "ignore_dir", "done"}
      [] field = "ignore_dir" -> pc \in {"ignore_dir", "done"}
      [] field = "resource_paths" -> pc = "done"

Fields == {"workspace_roots", "library", "ignore_dir", "resource_paths"}

\* C5: each of the four lists becomes the resolved strings of its entries with
\* only the first occurrence of each kept: no two entries are equal, every
\* distinct resolved string is there, and the order is that of the first
\* occurrences; ["/a/b", "./b", "/a/b"] under the workspace root /a gives
\* ["/a/b"].
C5_FirstOccurrenceKept ==
    /\ \A f \in Fields :
           IF Processed(f)
           THEN FirstOccurrences(emmyrc[f], Resolved(loaded[f]))
           ELSE pc = "loaded" => emmyrc[f] = loaded[f]
    /\ (Processed("workspace_roots") /\ ~windows
            /\ loaded.workspace_roots =
                   <<(<<"/", "a", "/", "b">>), (<<".", "/", "b">>), (<<"/", "a", "/", "b">>)>>) =>
           emmyrc.workspace_roots = <<(<<"/", "a", "/", "b">>)>>

C5_Witness ==
    /\ pc = "done"
    /\ ~windows
    /\ loaded.workspace_roots =
           <<(<<"/", "a", "/", "b">>), (<<".", "/", "b">>), (<<"/", "a", "/", "b">>)>>
    /\ emmyrc.workspace_roots = <<(<<"/", "a", "/", "b">>)>>

----------------------------------------------------------------------------
(* C9 *)

NormalizedAbsolute(p) ==
    /\ has_root(p)
    /\ is_absolute(p)
    /\ ~HasComponent(p, "CurDir")
    /\ ~HasComponent(p, "ParentDir")

AllNormalizedAbsolute ==
    pc = "done" =>
        \A f \in Fields : \A i \in 1..Len(emmyrc[f]) : NormalizedAbsolute(emmyrc[f][i])

\* C9: after pre_process_emmyrc with an absolute workspace root every entry of
\* the four lists is a normalized absolute path: it has a root and holds no
\* `.` and no `..` component, whatever the raw entry was.
C9_AllNormalizedAbsolute == AllNormalizedAbsolute

\* C9 holds when the home directory is known, of the build without path prefixes
C9_AllNormalizedAbsolute_NotWindows == (~windows /\ home # None) => AllNormalizedAbsolute

\* C9 fails of the build with path prefixes though the home directory is known
C9_AllNormalizedAbsolute_HomeKnown == home # None => AllNormalizedAbsolute

=============================================================================
